---- MODULE Spec2Model ----
(***************************************************************************)
(* Model of tap_opensea/streams.py: the two replication strategies         *)
(* (IncrementalStream.sync, FullTableStream.sync) and the two concrete     *)
(* record generators (Assets.get_records, Stats.get_records).              *)
(*                                                                         *)
(* One sync is a sequence of steps: the start of sync, one step per record *)
(* pulled from get_records (transform, filter, write_record, increment),   *)
(* one step per page request of the generator, and the end of sync         *)
(* (write_bookmark, write_state, return).  An exception ends the sync in   *)
(* pc = "failed".                                                          *)
(***************************************************************************)
EXTENDS Integers, Sequences, FiniteSets, TLC

\* ---------------------------------------------------------------- bounds
MaxTime == 2
MaxLen == 3
MaxRecs == 2
MaxPage == 2
MaxClock == 2

\* ---------------------------------------------------- program constants
\* range(10_001) in Assets.get_records
OffsetCap == 10001
\* 'limit': 50 in Assets.get_records
PageLimit == 50

VARIABLES
    config,            \* the tap config: <<>> (no start_date) or <<start_date>>
    initial,           \* the state the process was started with
    state,             \* the singer state dict: bookmark path -> value
    state_in,          \* the state argument of the sync in progress
    stream,            \* tap_stream_id of the stream being synced
    pc,                \* "idle", "loop", "done", "failed"
    start_time,        \* IncrementalStream.sync local
    max_record_value,  \* IncrementalStream.sync local
    yielded,           \* records the sync loop has pulled from get_records
    sink,              \* messages written in this sync (write_record, write_state)
    counter,           \* metrics.record_counter: [held, n]
    returned,          \* <<>> or <<the state sync returned>>
    offset,            \* Assets.get_records loop variable (-1 before the loop)
    page,              \* records of the fetched page not yet yielded
    requests,          \* client.get calls issued by the generator
    emptySeen,         \* some response of this pass was an empty page
    assets_total,      \* number of assets the source holds
    now,               \* the clock read by singer.utils.now()
    prevEmitted,       \* <<>> or <<records the previous full-table sync emitted>>
    parent             \* the `parent` attribute of the stream: "none" or a stream id

vars == <<config, initial, state, state_in, stream, pc, start_time,
          max_record_value, yielded, sink, counter, returned, offset, page,
          requests, emptySeen, assets_total, now, prevEmitted, parent>>

incVars == <<start_time, max_record_value>>
genVars == <<offset, page, requests, emptySeen>>
envVars == <<config, initial, assets_total, parent>>

\* ------------------------------------------------------------ timestamps
(* A timestamp string is its wall-clock reading and the way its zone is    *)
(* written: "naive" (no zone), "utc" (+00:00) or "plus1" (+01:00).         *)
TimeStr(local, tz) == [local |-> local, tz |-> tz]

\* singer.utils.strptime_to_utc: a naive reading is taken as UTC, a zoned one
\* is converted to UTC.  The result is an instant.
strptime_to_utc(s) == IF s.tz = "plus1" THEN s.local - 1 ELSE s.local

\* datetime.isoformat() of a UTC datetime.
isoformat(instant) == TimeStr(instant, "utc")

Epoch == TimeStr(0, "utc")

\* ------------------------------------------------------------ singer state
IncStream == "events"
ReplKey == "updated_at"
FullTableStreams == {"assets", "stats"}

IncPath == <<IncStream, ReplKey>>
OtherPaths == {<<"orders", "updated_at">>, <<IncStream, "cursor">>}

EmptyState == [p \in {} |-> Epoch]
OtherState == [p \in OtherPaths |-> TimeStr(1, "utc")]

\* singer.get_bookmark(state, tap_stream_id, key, default)
get_bookmark(st, sid, key, default) ==
    IF <<sid, key>> \in DOMAIN st THEN st[<<sid, key>>] ELSE default

\* singer.write_bookmark(state, tap_stream_id, key, val)
write_bookmark(st, sid, key, val) ==
    [p \in (DOMAIN st) \cup {<<sid, key>>} |->
        IF p = <<sid, key>> THEN val ELSE st[p]]

\* ------------------------------------------------------------ output sink
RecordMsg(sid, r) == [type |-> "RECORD", stream |-> sid, record |-> r]
StateMsg(st) == [type |-> "STATE", value |-> st]

IsRecordMsg(m) == m.type = "RECORD"
IsStateMsg(m) == m.type = "STATE"

\* The records written by write_record, in order.
Emitted ==
    LET recs == SelectSeq(sink, IsRecordMsg)
    IN  [i \in 1..Len(recs) |-> recs[i].record]

StatesWritten == SelectSeq(sink, IsStateMsg)

Acquire == [held |-> TRUE, n |-> 0]
Release_Leak(c) == c

Release(c) == [c EXCEPT !.held = FALSE]
Increment(c) == [c EXCEPT !.n = @ + 1]

\* transformer.transform: the normalized record of a raw record.
Transform(r) == [r EXCEPT !.raw = FALSE]

\* ------------------------------------------------------ incremental source
(* IncrementalStream has no get_records of its own: a subclass supplies    *)
(* it.  Its records are any sequence of at most MaxLen records with keys   *)
(* in 0..MaxTime, or the sequence of the worked example.                   *)
Example == [start |-> 4, keys |-> <<5, 3, 7, 6>>]

IncRecord(s) == [updated_at |-> s, raw |-> TRUE]

RawKeys == {TimeStr(t, tz) : t \in 0..MaxTime, tz \in {"naive", "plus1"}}

ExampleRecords == [i \in 1..Len(Example.keys) |-> IncRecord(isoformat(Example.keys[i]))]

IsPrefix(s, t) == Len(s) <= Len(t) /\ \A i \in 1..Len(s) : s[i] = t[i]

IncCandidates == {IncRecord(s) : s \in RawKeys} \cup {ExampleRecords[i] : i \in 1..Len(ExampleRecords)}

CanYield(r) ==
    \/ /\ Len(yielded) < MaxLen
       /\ r.updated_at \in RawKeys
       /\ \A i \in 1..Len(yielded) : yielded[i].updated_at \in RawKeys
    \/ IsPrefix(Append(yielded, r), ExampleRecords)

StartDates == {TimeStr(t, "naive") : t \in (0..MaxTime) \cup {Example.start}}

\* -------------------------------------------------- IncrementalStream.sync
\* Line 93: the emission test against the running maximum.
ShouldEmit_Strict(value, max) == value > strptime_to_utc(max)

ShouldEmit_Always(value, max) == TRUE

ShouldEmit_FromStart(value, max) == value >= strptime_to_utc(start_time)

ShouldEmit(value, max) == value >= strptime_to_utc(max)

\* Line 94: what an emission writes to the sink.
IncWrites_WithState(sid, rec) == <<RecordMsg(sid, rec), StateMsg(state)>>

IncWrites(sid, rec) == <<RecordMsg(sid, rec)>>

\* Line 96: the running maximum after an emission.
NextMax_Keep(value) == max_record_value

NextMax(value) == isoformat(value)

\* Line 98: the state written at the end of an incremental sync.
IncFinalState_Normalized(st, mrv) ==
    write_bookmark(st, IncStream, ReplKey, isoformat(strptime_to_utc(mrv)))

IncFinalState(st, mrv) == write_bookmark(st, IncStream, ReplKey, mrv)

\* Lines 86-89 with config['start_date'] present.
IncStart ==
    /\ pc \in {"idle", "done"}
    /\ config # <<>>
    /\ stream' = IncStream
    /\ start_time' = get_bookmark(state, IncStream, ReplKey, config[1])
    /\ max_record_value' = start_time'
    /\ counter' = Acquire
    /\ state_in' = state
    /\ yielded' = <<>>
    /\ sink' = <<>>
    /\ returned' = <<>>
    /\ pc' = "loop"
    /\ UNCHANGED <<state, genVars, envVars, now, prevEmitted>>

\* Line 86 with no start_date in config: config['start_date'] raises KeyError.
IncStartFails_Default ==
    /\ pc \in {"idle", "done"}
    /\ config = <<>>
    /\ stream' = IncStream
    /\ start_time' = get_bookmark(state, IncStream, ReplKey, Epoch)
    /\ max_record_value' = start_time'
    /\ counter' = Acquire
    /\ state_in' = state
    /\ yielded' = <<>>
    /\ sink' = <<>>
    /\ returned' = <<>>
    /\ pc' = "loop"
    /\ UNCHANGED <<state, genVars, envVars, now, prevEmitted>>

IncStartFails ==
    /\ pc \in {"idle", "done"}
    /\ config = <<>>
    /\ stream' = IncStream
    /\ state_in' = state
    /\ yielded' = <<>>
    /\ sink' = <<>>
    /\ returned' = <<>>
    /\ pc' = "failed"
    /\ UNCHANGED <<state, incVars, counter, genVars, envVars, now, prevEmitted>>

\* Lines 90-96: one record of get_records, transformed and filtered.
IncStep(r) ==
    /\ pc = "loop"
    /\ stream = IncStream
    /\ CanYield(r)
    /\ yielded' = Append(yielded, r)
    /\ LET transformed_record == Transform(r)
           record_replication_value == strptime_to_utc(transformed_record.updated_at)
       IN  IF ShouldEmit(record_replication_value, max_record_value)
           THEN /\ sink' = sink \o IncWrites(IncStream, transformed_record)
                /\ counter' = Increment(counter)
                /\ max_record_value' = NextMax(record_replication_value)
           ELSE UNCHANGED <<sink, counter, max_record_value>>
    /\ UNCHANGED <<state, state_in, stream, pc, start_time, returned, genVars,
                   envVars, now, prevEmitted>>

\* Line 90: get_records raises; the with block releases the counter.
IncSourceFails_Finally ==
    /\ pc = "loop"
    /\ stream = IncStream
    /\ counter' = Release(counter)
    /\ state' = IncFinalState(state, max_record_value)
    /\ sink' = Append(sink, StateMsg(state'))
    /\ pc' = "failed"
    /\ UNCHANGED <<state_in, stream, incVars, yielded, returned,
                   genVars, envVars, now, prevEmitted>>

IncSourceFails ==
    /\ pc = "loop"
    /\ stream = IncStream
    /\ counter' = Release(counter)
    /\ pc' = "failed"
    /\ UNCHANGED <<state, state_in, stream, incVars, yielded, sink, returned,
                   genVars, envVars, now, prevEmitted>>

\* Lines 91-92: the transformer (or the timestamp parser) raises on a record.
IncTransformFails(r) ==
    /\ pc = "loop"
    /\ stream = IncStream
    /\ CanYield(r)
    /\ yielded' = Append(yielded, r)
    /\ counter' = Release(counter)
    /\ pc' = "failed"
    /\ UNCHANGED <<state, state_in, stream, incVars, sink, returned, genVars,
                   envVars, now, prevEmitted>>

\* Lines 96-100: the source is exhausted; bookmark, write_state, return.
IncFinish ==
    /\ pc = "loop"
    /\ stream = IncStream
    /\ counter' = Release(counter)
    /\ state' = IncFinalState(state, max_record_value)
    /\ sink' = Append(sink, StateMsg(state'))
    /\ returned' = <<state'>>
    /\ pc' = "done"
    /\ UNCHANGED <<state_in, stream, incVars, yielded, genVars, envVars, now,
                   prevEmitted>>

\* ------------------------------------------------------- the record source
Min(a, b) == IF a < b THEN a ELSE b
Max(a, b) == IF a > b THEN a ELSE b

RawAsset(id) == [id |-> id, raw |-> TRUE]

\* client.get(endpoint, params) of a source that holds assets 0..total-1 and
\* answers {'offset': o, 'limit': l} with the assets o..o+l-1 it holds.
WindowPage(total, o, l) ==
    [i \in 1..Min(l, Max(total - o, 0)) |-> RawAsset(o + i - 1)]

\* client.get of a source about which nothing is assumed: any page of at most
\* MaxPage records.
AnyPages == {[i \in 1..k |-> RawAsset(i - 1)] : k \in 0..MaxPage}

\* client.get("/api/v1/asset/<address>/1"): response['collection']['stats'].
RawStats == [floor_price |-> 1, raw |-> TRUE]

\* ----------------------------------------------------- Assets.get_records
\* Line 148: the offset of the next iteration of `for offest in range(10_001)`.
NextOffset(o) == o + 1

\* Line 148: whether range(10_001) has another value after offset o.
HasNextOffset_OneMore(o) == NextOffset(o) < OffsetCap + 1

HasNextOffset(o) == NextOffset(o) < OffsetCap

\* Line 162: `yield from assets` ends, and the loop goes on, when every
\* record of the page has been pulled.
PageDone_Prefetch(p) == Len(p) <= 1

PageDone(p) == p = <<>>

\* Lines 159-160: every asset of the response is stamped with the offset.
Annotate_Next(assets, o) ==
    [i \in 1..Len(assets) |->
        [id |-> assets[i].id, raw |-> assets[i].raw, offset |-> o + 1]]

Annotate(assets, o) ==
    [i \in 1..Len(assets) |->
        [id |-> assets[i].id, raw |-> assets[i].raw, offset |-> o]]

\* Lines 148-160: one iteration up to the yield: the request and the stamping.
AssetsRequest(response) ==
    /\ pc = "loop"
    /\ stream = "assets"
    /\ PageDone(page)
    /\ HasNextOffset(offset)
    /\ offset' = NextOffset(offset)
    /\ requests' = requests + 1
    /\ page' = Annotate(response, offset')
    /\ emptySeen' = (emptySeen \/ response = <<>>)

\* Line 156: client.get raises; the exception leaves the generator and the
\* with block of the sync that consumes it.
AssetsRequestFails ==
    /\ pc = "loop"
    /\ stream = "assets"
    /\ PageDone(page)
    /\ HasNextOffset(offset)
    /\ offset' = NextOffset(offset)
    /\ requests' = requests + 1
    /\ counter' = Release(counter)
    /\ pc' = "failed"
    /\ UNCHANGED <<state, state_in, stream, incVars, yielded, sink, returned,
                   page, emptySeen, envVars, now, prevEmitted>>

\* Line 162 left for the last time: range(10_001) is used up.
AssetsExhausted == stream = "assets" /\ page = <<>> /\ ~HasNextOffset(offset)

\* ------------------------------------------------------ Stats.get_records
\* Lines 174-182: the one request, stamped with the clock's reading t.
StatsRequest(t) ==
    /\ pc = "loop"
    /\ stream = "stats"
    /\ requests = 0
    /\ t \in now..MaxClock
    /\ now' = t
    /\ requests' = 1
    /\ page' = <<[floor_price |-> RawStats.floor_price, raw |-> RawStats.raw,
                  date |-> isoformat(t)]>>
    /\ UNCHANGED <<state, state_in, stream, pc, incVars, yielded, sink, counter,
                   returned, offset, emptySeen, envVars, prevEmitted>>

\* Line 177: client.get raises.
StatsRequestFails ==
    /\ pc = "loop"
    /\ stream = "stats"
    /\ requests = 0
    /\ requests' = 1
    /\ counter' = Release(counter)
    /\ pc' = "failed"
    /\ UNCHANGED <<state, state_in, stream, incVars, yielded, sink, returned,
                   offset, page, emptySeen, envVars, now, prevEmitted>>

\* Line 182 left: the generator has yielded its one record.
StatsExhausted == stream = "stats" /\ page = <<>> /\ requests = 1

\* ------------------------------------------------------ FullTableStream.sync
\* Line 132: the state a full-table sync writes and returns.
FullFinalState_Bookmark(st) == write_bookmark(st, stream, "synced", isoformat(now))

FullFinalState_Cleared(st) == EmptyState

FullFinalState(st) == st

\* Line 130: the counter after one record.
FullCount_Twice(c) == Increment(Increment(c))

FullCount(c) == Increment(c)

\* Line 126 with the generator of the sync before kept instead of a new one.
FullStart_ReusedGenerator ==
    /\ pc \in {"idle", "done"}
    /\ stream \in FullTableStreams
    /\ counter' = Acquire
    /\ state_in' = state
    /\ yielded' = <<>>
    /\ sink' = <<>>
    /\ returned' = <<>>
    /\ prevEmitted' = IF pc = "done" THEN <<Emitted>> ELSE <<>>
    /\ pc' = "loop"
    /\ UNCHANGED <<state, stream, incVars, genVars, envVars, now>>

\* Line 126: the counter is acquired and get_records() makes the generator.
FullStart ==
    /\ pc \in {"idle", "done"}
    /\ stream \in FullTableStreams
    /\ counter' = Acquire
    /\ state_in' = state
    /\ yielded' = <<>>
    /\ sink' = <<>>
    /\ returned' = <<>>
    /\ offset' = -1
    /\ page' = <<>>
    /\ requests' = 0
    /\ emptySeen' = FALSE
    /\ prevEmitted' = IF pc = "done" THEN <<Emitted>> ELSE <<>>
    /\ pc' = "loop"
    /\ UNCHANGED <<state, stream, incVars, envVars, now>>

\* Lines 148-160 for a sync of Assets against the source of assets_total assets.
FullAssetsRequest ==
    /\ AssetsRequest(WindowPage(assets_total, NextOffset(offset), PageLimit))
    /\ UNCHANGED <<state, state_in, stream, pc, incVars, yielded, sink, counter,
                   returned, envVars, now, prevEmitted>>

\* Lines 127-130: one record of get_records, transformed and written.
FullStep ==
    /\ pc = "loop"
    /\ stream \in FullTableStreams
    /\ page # <<>>
    /\ LET record == Head(page)
           transformed_record == Transform(record)
       IN  /\ yielded' = Append(yielded, record)
           /\ sink' = Append(sink, RecordMsg(stream, transformed_record))
           /\ counter' = FullCount(counter)
    /\ page' = Tail(page)
    /\ UNCHANGED <<state, state_in, stream, pc, incVars, returned, offset,
                   requests, emptySeen, envVars, now, prevEmitted>>

\* Line 128: the transformer raises on a record.
FullTransformFails ==
    /\ pc = "loop"
    /\ stream \in FullTableStreams
    /\ page # <<>>
    /\ yielded' = Append(yielded, Head(page))
    /\ page' = Tail(page)
    /\ counter' = Release(counter)
    /\ pc' = "failed"
    /\ UNCHANGED <<state, state_in, stream, incVars, sink, returned, offset,
                   requests, emptySeen, envVars, now, prevEmitted>>

\* Lines 130-133: the generator is exhausted; write_state, return.
FullFinish ==
    /\ pc = "loop"
    /\ AssetsExhausted \/ StatsExhausted
    /\ counter' = Release(counter)
    /\ state' = FullFinalState(state)
    /\ sink' = Append(sink, StateMsg(state'))
    /\ returned' = <<state'>>
    /\ pc' = "done"
    /\ UNCHANGED <<state_in, stream, incVars, yielded, genVars, envVars, now,
                   prevEmitted>>

\* ------------------------------------------------------------ start states
PriorBookmarks == {TimeStr(MaxTime, "plus1")}

IncInitStates ==
    {EmptyState, OtherState}
        \cup {write_bookmark(OtherState, IncStream, ReplKey, b) : b \in PriorBookmarks}

InitCommon ==
    /\ initial = state
    /\ state_in = state
    /\ pc = "idle"
    /\ start_time = Epoch
    /\ max_record_value = Epoch
    /\ yielded = <<>>
    /\ sink = <<>>
    /\ counter = [held |-> FALSE, n |-> 0]
    /\ returned = <<>>
    /\ offset = -1
    /\ page = <<>>
    /\ requests = 0
    /\ emptySeen = FALSE
    /\ now = 0
    /\ prevEmitted = <<>>

\* ------------------------------------------- SpecInc: incremental syncs
InitInc ==
    /\ parent = "none"
    /\ config \in {<<>>} \cup {<<d>> : d \in StartDates}
    /\ state \in IncInitStates
    /\ stream = IncStream
    /\ assets_total = 0
    /\ InitCommon

NextInc ==
    \/ IncStart
    \/ IncStartFails
    \/ \E r \in IncCandidates : IncStep(r)
    \/ IncSourceFails
    \/ \E r \in IncCandidates : IncTransformFails(r)
    \/ IncFinish

SpecInc == InitInc /\ [][NextInc]_vars

\* ------------------------------------------- SpecFull: full-table syncs
(* One full-table stream, synced again and again against a source that     *)
(* does not change.                                                        *)
FullInitStates ==
    {EmptyState, OtherState, write_bookmark(OtherState, "assets", "synced", Epoch)}

InitFull ==
    /\ parent = "none"
    /\ config = <<>>
    /\ state \in FullInitStates
    /\ stream \in FullTableStreams
    /\ assets_total \in 0..MaxRecs
    /\ InitCommon

NextFull ==
    \/ FullStart
    \/ FullAssetsRequest
    \/ AssetsRequestFails
    \/ \E t \in 0..MaxClock : StatsRequest(t)
    \/ StatsRequestFails
    \/ FullStep
    \/ FullTransformFails
    \/ FullFinish

SpecFull == InitFull /\ [][NextFull]_vars

\* ------------------------------ SpecPage: one pass of Assets.get_records
(* The generator alone, pulled by any consumer, against a source about     *)
(* which nothing is assumed.                                               *)
InitPage ==
    /\ parent = "none"
    /\ config = <<>>
    /\ state = EmptyState
    /\ stream = "assets"
    /\ assets_total = 0
    /\ initial = state
    /\ state_in = state
    /\ pc = "loop"
    /\ start_time = Epoch
    /\ max_record_value = Epoch
    /\ yielded = <<>>
    /\ sink = <<>>
    /\ counter = [held |-> FALSE, n |-> 0]
    /\ returned = <<>>
    /\ offset = -1
    /\ page = <<>>
    /\ requests = 0
    /\ emptySeen = FALSE
    /\ now = 0
    /\ prevEmitted = <<>>

PageRequest ==
    /\ \E response \in AnyPages : AssetsRequest(response)
    /\ UNCHANGED <<state, state_in, stream, pc, incVars, yielded, sink, counter,
                   returned, envVars, now, prevEmitted>>

\* Line 162: the consumer pulls the next record of the page.
PageYield ==
    /\ pc = "loop"
    /\ stream = "assets"
    /\ page # <<>>
    /\ page' = Tail(page)
    /\ UNCHANGED <<state, state_in, stream, pc, incVars, yielded, sink, counter,
                   returned, offset, requests, emptySeen, envVars, now,
                   prevEmitted>>

\* The generator returns: StopIteration at the consumer.
PageEnd ==
    /\ pc = "loop"
    /\ AssetsExhausted
    /\ pc' = "done"
    /\ UNCHANGED <<state, state_in, stream, incVars, yielded, sink, counter,
                   returned, genVars, envVars, now, prevEmitted>>

NextPage ==
    \/ PageRequest
    \/ AssetsRequestFails
    \/ PageYield
    \/ PageEnd

SpecPage == InitPage /\ [][NextPage]_vars

\* --------------------------- SpecChain: a full-table stream, then events
(* The engine syncs a full-table stream A and hands the state it returns   *)
(* to the incremental stream.                                              *)
InitChain ==
    /\ parent = "none"
    /\ config = <<TimeStr(0, "naive")>>
    /\ state \in {EmptyState, OtherState,
                  write_bookmark(OtherState, IncStream, ReplKey, TimeStr(MaxTime, "plus1"))}
    /\ stream \in FullTableStreams
    /\ assets_total = MaxRecs
    /\ InitCommon

ChainFullStart == pc = "idle" /\ FullStart

ChainIncStart == pc = "done" /\ stream \in FullTableStreams /\ IncStart

NextChain ==
    \/ ChainFullStart
    \/ FullAssetsRequest
    \/ AssetsRequestFails
    \/ \E t \in 0..MaxClock : StatsRequest(t)
    \/ StatsRequestFails
    \/ FullStep
    \/ FullTransformFails
    \/ FullFinish
    \/ ChainIncStart
    \/ \E r \in IncCandidates : IncStep(r)
    \/ IncSourceFails
    \/ \E r \in IncCandidates : IncTransformFails(r)
    \/ IncFinish

SpecChain == InitChain /\ [][NextChain]_vars

\* ------------------------- SpecParent: a stream that resolves its parent
(* A stream whose `parent` attribute is unset or names a registered stream *)
(* (STREAMS), synced by FullTableStream.sync; its get_records starts by    *)
(* calling self.get_parent_data(config).                                   *)
ChildStream == "child"

\* STREAMS (lines 185-188), and the default `parent = None` of BaseStream.
Parents == {"none"} \cup FullTableStreams

\* Lines 144 and 173: `def get_records(self)` of Assets and of Stats takes
\* neither config nor is_parent.
AcceptsParentCall(sid) == FALSE

InitParent ==
    /\ parent \in Parents
    /\ config \in {<<>>} \cup {<<d>> : d \in StartDates}
    /\ state \in FullInitStates
    /\ stream = ChildStream
    /\ assets_total \in 0..MaxRecs
    /\ InitCommon

\* Line 126 for the child: the counter is acquired, get_records() is called.
ChildStart ==
    /\ pc = "idle"
    /\ stream = ChildStream
    /\ counter' = Acquire
    /\ state_in' = state
    /\ yielded' = <<>>
    /\ sink' = <<>>
    /\ returned' = <<>>
    /\ pc' = "loop"
    /\ UNCHANGED <<state, stream, incVars, genVars, envVars, now, prevEmitted>>

\* Lines 58-59: self.parent(self.client) raises TypeError when parent is
\* None; otherwise parent.get_records(config, is_parent=True) raises
\* TypeError when the parent's get_records does not take the arguments.
\* The error leaves the child's sync; no request has been issued.
get_parent_data ==
    /\ pc = "loop"
    /\ stream = ChildStream
    /\ parent = "none" \/ ~AcceptsParentCall(parent)
    /\ counter' = Release(counter)
    /\ pc' = "failed"
    /\ UNCHANGED <<state, state_in, stream, incVars, yielded, sink, returned,
                   genVars, envVars, now, prevEmitted>>

NextParent ==
    \/ ChildStart
    \/ get_parent_data

SpecParent == InitParent /\ [][NextParent]_vars

\* =================================================================== claims
Range(seq) == {seq[i] : i \in 1..Len(seq)}

HasBookmark(st) == IncPath \in DOMAIN st

\* The instant of the incremental stream's bookmark in st.
Watermark(st) == strptime_to_utc(st[IncPath])

YieldedKeys == [i \in 1..Len(yielded) |-> strptime_to_utc(yielded[i].updated_at)]

EmittedKeys == [i \in 1..Len(Emitted) |-> strptime_to_utc(Emitted[i].updated_at)]

\* Every entry of st0 other than the incremental bookmark is in st, unchanged,
\* and st has no other entry than those and the incremental bookmark.
OnlyBookmarkChanged(st0, st) ==
    /\ DOMAIN st = (DOMAIN st0) \cup {IncPath}
    /\ \A p \in (DOMAIN st0) \ {IncPath} : st[p] = st0[p]

\* C1: the bookmark of the incremental stream never moves backward: a step
\* that changes the state leaves a watermark at or after the one before (so
\* the value after sync N+1 is >= the value after sync N), and the bookmark a
\* sync writes at its end is at or after the start_time it read.
C1_MonotonicWatermark ==
    [][/\ HasBookmark(state) =>
            HasBookmark(state') /\ Watermark(state') >= Watermark(state)
       /\ (pc = "loop" /\ pc' = "done") =>
            /\ HasBookmark(state')
            /\ Watermark(state') >= strptime_to_utc(start_time)]_vars

\* A sync that resumed from the bookmark an earlier sync wrote (only a sync
\* writes the "utc" form), skipped a record and moved the bookmark forward.
C1_Witness ==
    /\ pc = "done"
    /\ stream = IncStream
    /\ HasBookmark(state_in)
    /\ state_in[IncPath].tz = "utc"
    /\ Len(Emitted) < Len(yielded)
    /\ Watermark(state) > Watermark(state_in)

\* The keys the claim says are emitted: those at or after the running
\* maximum, which starts at max and becomes the key of each emitted record.
RECURSIVE FilterFrom(_, _)
FilterFrom(keys, max) ==
    IF keys = <<>> THEN <<>>
    ELSE IF Head(keys) >= max
         THEN <<Head(keys)>> \o FilterFrom(Tail(keys), Head(keys))
         ELSE FilterFrom(Tail(keys), max)

\* C2: the records an incremental sync has emitted are exactly the processed
\* records whose key is >= the running maximum (from start_time, set by each
\* emission), in order, the counter counts them, and keys [5, 3, 7, 6] from
\* start_time 4 give [5, 7] and the watermark 7.
C2_IncrementalFiltering ==
    (stream = IncStream /\ pc \in {"loop", "done"}) =>
        /\ EmittedKeys = FilterFrom(YieldedKeys, strptime_to_utc(start_time))
        /\ \A i \in 1..Len(Emitted) : Emitted[i] \in {Transform(r) : r \in Range(yielded)}
        /\ counter.n = Len(Emitted)
        /\ (YieldedKeys = Example.keys /\ strptime_to_utc(start_time) = Example.start) =>
              /\ EmittedKeys = <<5, 7>>
              /\ strptime_to_utc(max_record_value) = 7
              /\ pc = "done" => Watermark(state) = 7

C2_Witness ==
    /\ stream = IncStream
    /\ pc = "done"
    /\ YieldedKeys = Example.keys
    /\ strptime_to_utc(start_time) = Example.start
    /\ EmittedKeys = <<5, 7>>
    /\ Watermark(state) = 7

\* C3: once the source has returned an empty page no further request is
\* issued, and the empty page at offset K is the answer to request K + 1.
C3_PaginationTermination ==
    [][/\ emptySeen => requests' = requests
       /\ (~emptySeen /\ emptySeen') => requests = offset']_vars

\* C4: each request after the first carries the previous offset plus the page
\* size, and no source record is yielded twice in one pass.
C4_PaginationAdvance ==
    /\ [][(requests >= 1 /\ requests' = requests + 1) =>
              offset' = offset + PageLimit]_vars
    /\ [](stream = "assets" =>
              \A i, j \in 1..Len(yielded) :
                  yielded[i].id = yielded[j].id => i = j)

\* What is left of a pass: requests not yet issued, and records not yet
\* yielded.  No page is longer than MaxPage.
PassMeasure == (OffsetCap - requests) * (MaxPage + 1) + Len(page)

\* C5: a pass never issues more than 10,001 requests, and it ends: every step
\* that leaves the pass running brings it nearer its end.
C5_SafetyCap ==
    /\ [](requests <= OffsetCap /\ PassMeasure >= 0)
    /\ [][pc' = "loop" => PassMeasure' < PassMeasure]_vars

\* A pass against a source that never returned an empty page ran to its end.
C5_Witness ==
    /\ pc = "done"
    /\ ~emptySeen
    /\ requests = OffsetCap

\* C6: a full-table sync changes no bookmark, and what it writes and returns
\* is the state it was given.
C6_FullTableStateUnchanged ==
    stream \in FullTableStreams =>
        /\ state = state_in
        /\ pc = "done" =>
              /\ returned = <<state_in>>
              /\ StatesWritten = <<StateMsg(state_in)>>

C6_Witness ==
    /\ pc = "done"
    /\ stream = "assets"
    /\ Len(Emitted) > 0
    /\ state_in = write_bookmark(OtherState, "assets", "synced", Epoch)
    /\ returned = <<state_in>>

\* C7: after a full-table stream A and then the incremental stream B, the
\* state has no entry of A, B's bookmark is B's final max_record_value, and
\* every other entry is as it was: in the initial state, and in B's input.
C7_StatePassthrough ==
    /\ (stream \in FullTableStreams /\ pc = "done") => returned = <<initial>>
    /\ (stream = IncStream /\ pc = "done") =>
          /\ \A p \in DOMAIN state : p[1] \notin FullTableStreams
          /\ state[IncPath] = max_record_value
          /\ OnlyBookmarkChanged(initial, state)
          /\ OnlyBookmarkChanged(state_in, state)
          /\ returned = <<state>>

C7_Witness ==
    /\ stream = IncStream
    /\ pc = "done"
    /\ initial = OtherState
    /\ requests = OffsetCap
    /\ Len(Emitted) > 0
    /\ state[IncPath] = max_record_value
    /\ state # initial

\* C8: a full-table sync that has met no error has emitted the transform of
\* every record it was given, once each and in order, and the counter counts
\* them; at the end the counter is released with that count.
C8_FullTableEmission ==
    (stream \in FullTableStreams /\ pc \in {"loop", "done"}) =>
        /\ Emitted = [i \in 1..Len(yielded) |-> Transform(yielded[i])]
        /\ counter.n = Len(Emitted)
        /\ pc = "done" => ~counter.held

C8_Witness ==
    /\ stream = "assets"
    /\ pc = "done"
    /\ Len(yielded) >= 3
    /\ Len(Emitted) = Len(yielded)
    /\ counter = [held |-> FALSE, n |-> Len(yielded)]

\* C9 as stated: the second of two full-table syncs of an unchanged source
\* emits the same set of records as the first, and leaves the same state.
C9_FullTableIdempotence ==
    (stream \in FullTableStreams /\ pc = "done" /\ prevEmitted # <<>>) =>
        /\ Range(Emitted) = Range(prevEmitted[1])
        /\ state = state_in

\* A record without the field Stats.get_records takes from the clock.
WithoutDate(r) ==
    IF "date" \in DOMAIN r THEN [f \in (DOMAIN r) \ {"date"} |-> r[f]] ELSE r

\* C9 amended: the second sync leaves the same state and emits the same set
\* of records but for the 'date' of a Stats record, which is the clock's
\* reading at each sync; the records of Assets are the same.
C9_IdempotentButDate ==
    (stream \in FullTableStreams /\ pc = "done" /\ prevEmitted # <<>>) =>
        /\ {WithoutDate(r) : r \in Range(Emitted)}
              = {WithoutDate(r) : r \in Range(prevEmitted[1])}
        /\ stream = "assets" => Range(Emitted) = Range(prevEmitted[1])
        /\ state = state_in

\* Two syncs of Stats whose records differ (in the date).
C9_Witness ==
    /\ stream = "stats"
    /\ pc = "done"
    /\ prevEmitted # <<>>
    /\ Len(Emitted) = 1
    /\ Range(Emitted) # Range(prevEmitted[1])

\* C10 as stated: an incremental sync of a source without records emits
\* nothing, writes the state once, and the state it writes and returns is its
\* input state, the bookmark being start_time.
C10_ZeroRecords ==
    (stream = IncStream /\ pc = "done" /\ yielded = <<>>) =>
        /\ Emitted = <<>>
        /\ StatesWritten = <<StateMsg(state_in)>>
        /\ returned = <<state_in>>
        /\ state[IncPath] = start_time

\* C10 amended: as stated when the input state has a bookmark for the stream;
\* with none, the state written and returned is the input state plus the one
\* entry state[stream][replication_key] = config['start_date'].
C10_ZeroRecordsAmended ==
    (stream = IncStream /\ pc = "done" /\ yielded = <<>>) =>
        /\ Emitted = <<>>
        /\ StatesWritten = <<StateMsg(state)>>
        /\ returned = <<state>>
        /\ state[IncPath] = start_time
        /\ OnlyBookmarkChanged(state_in, state)
        /\ HasBookmark(state_in) => state = state_in
        /\ ~HasBookmark(state_in) =>
              /\ state # state_in
              /\ state[IncPath] = config[1]

C10_Witness ==
    /\ stream = IncStream
    /\ pc = "done"
    /\ yielded = <<>>
    /\ ~HasBookmark(state_in)
    /\ state_in = OtherState
    /\ state[IncPath] = config[1]

\* ------------------------------------------------------------------- C11
(* C11: an error of the source or of the transformer ends the sync. The    *)
(* step on which it is raised emits nothing and changes no state; a failed *)
(* sync has written no STATE message, has returned nothing, and leaves the *)
(* state as it was handed in (so what earlier streams persisted stands);   *)
(* after the failure no record is emitted and no page is requested.        *)
C11_ErrorsAreFatal ==
    /\ [](pc = "failed" =>
            /\ StatesWritten = <<>>
            /\ returned = <<>>
            /\ state = state_in
            /\ state = initial)
    /\ [][(pc' = "failed" /\ pc # "failed") =>
            /\ pc = "loop"
            /\ sink' = sink
            /\ state' = state
            /\ ~counter'.held]_vars
    /\ [][pc = "failed" => UNCHANGED <<sink, requests, state, pc>>]_vars

\* The transformer raised in `events`, after the full-table stream before it
\* had finished and after `events` had already emitted a record.
C11_Witness ==
    /\ pc = "failed"
    /\ stream = IncStream
    /\ Emitted # <<>>
    /\ Len(yielded) > Len(Emitted)
    /\ HasBookmark(state)

\* ------------------------------------------------------------------- C12
(* C12: the record counter is held exactly while a sync is in its loop: it *)
(* is acquired before the first record is requested (every request and     *)
(* every pulled record happens with the counter held) and it is released   *)
(* on every exit - exhaustion, a source error, a transform error.          *)
C12_ScopedCounter ==
    /\ [](counter.held <=> pc = "loop")
    /\ [][(requests' > requests \/ Len(yielded') > Len(yielded)) =>
            counter.held]_vars
    /\ [][(pc = "loop" /\ pc' # "loop") =>
            (pc' \in {"done", "failed"} /\ ~counter'.held)]_vars

\* A full-table sync of Assets left its loop on a transform error after it
\* had counted a record.
C12_Witness ==
    /\ pc = "failed"
    /\ stream = "assets"
    /\ counter.n > 0
    /\ Len(yielded) > counter.n
    /\ ~counter.held

\* ------------------------------------------------------------------- C13
(* C13: with no start_date in config and no prior bookmark for the stream, *)
(* IncrementalStream.sync never gets into its loop: it stays idle or has   *)
(* failed, and no record has been pulled from the source, nothing has been *)
(* written to the sink, the counter was never acquired, nothing was        *)
(* returned and the state is the one the process started with.             *)
C13_ConfigErrorPrecedesIO ==
    (stream = IncStream /\ config = <<>> /\ ~HasBookmark(initial)) =>
        /\ pc \in {"idle", "failed"}
        /\ yielded = <<>>
        /\ sink = <<>>
        /\ requests = 0
        /\ counter = [held |-> FALSE, n |-> 0]
        /\ returned = <<>>
        /\ state = initial

\* The sync was started without start_date and without a bookmark, and failed.
C13_Witness ==
    /\ pc = "failed"
    /\ stream = IncStream
    /\ config = <<>>
    /\ ~HasBookmark(state_in)
    /\ state_in = OtherState

\* ------------------------------------------------------------------- C14
(* C14: for a stream with a parent, resolving the parent (get_parent_data) *)
(* drains the parent: when the step is over, the parent has issued its     *)
(* requests to the source, all of them have completed, and the child goes  *)
(* on to its own first request.                                            *)
C14_ParentDrainedFirst ==
    [][(stream = ChildStream /\ parent # "none" /\ pc = "loop") =>
        /\ pc' = "loop"
        /\ requests' > 0
        /\ page' = <<>>]_vars

\* ------------------------------------------------------------------- C15
\* A sync of `events` that started from a prior bookmark and is in its loop
\* or has finished.
Resumed ==
    /\ stream = IncStream
    /\ pc \in {"loop", "done"}
    /\ HasBookmark(state_in)

(* C15: a sync that starts from a prior bookmark B emits only records      *)
(* whose replication-key value is newer than B (strictly after it).        *)
C15_OnlyNewerRecords ==
    Resumed =>
        \A i \in 1..Len(Emitted) : EmittedKeys[i] > Watermark(state_in)

(* C15, amended: a sync that starts from a prior bookmark B emits only     *)
(* records whose key is at or after B; and against a source that holds     *)
(* nothing after B it emits again exactly the records whose key equals B.  *)
C15_NotOlderRecords ==
    Resumed =>
        LET B == Watermark(state_in)
            AtB(k) == k = B
        IN  /\ \A i \in 1..Len(Emitted) : EmittedKeys[i] >= B
            /\ (\A i \in 1..Len(yielded) : YieldedKeys[i] <= B) =>
                   EmittedKeys = SelectSeq(YieldedKeys, AtB)

\* The bookmark was written by an earlier sync (isoformat form), the source
\* holds nothing after it, and the finished sync has emitted the record
\* whose key equals the bookmark.
C15_Witness ==
    /\ Resumed
    /\ pc = "done"
    /\ state_in[IncPath].tz = "utc"
    /\ \A i \in 1..Len(yielded) : YieldedKeys[i] <= Watermark(state_in)
    /\ Len(yielded) > Len(Emitted)
    /\ \E i \in 1..Len(Emitted) : EmittedKeys[i] = Watermark(state_in)

\* ------------------------------------------------------------------- C16
(* C16: an IncrementalStream.sync writes no state while it is in its loop; *)
(* a finished sync has written exactly one STATE message, as the last      *)
(* message after every RECORD, and the state written (which is the state   *)
(* returned) has the final max_record_value as the stream's bookmark.      *)
C16_StateWrittenOnceAtEnd ==
    stream = IncStream =>
        /\ pc = "loop" => StatesWritten = <<>>
        /\ pc = "done" =>
              /\ Len(StatesWritten) = 1
              /\ IsStateMsg(sink[Len(sink)])
              /\ \A i \in 1..(Len(sink) - 1) : IsRecordMsg(sink[i])
              /\ StatesWritten[1].value[IncPath] = max_record_value
              /\ StatesWritten[1].value = state
              /\ returned = <<state>>

\* A finished sync that emitted two records and skipped one.
C16_Witness ==
    /\ stream = IncStream
    /\ pc = "done"
    /\ Len(Emitted) >= 2
    /\ Len(yielded) > Len(Emitted)
    /\ state # state_in

\* ------------------------------------------------------------------- C17
(* C17: in a pass of Assets.get_records a request is issued only when      *)
(* every record of the page before it has been yielded and processed by    *)
(* the consumer (nothing of the page is left and every pulled record has   *)
(* been emitted); a request and its response are one blocking call, so     *)
(* none is outstanding when the next is issued; and the offsets requested  *)
(* are strictly increasing.                                                *)
C17_SequentialPagination ==
    [][(stream = "assets" /\ requests' = requests + 1) =>
        /\ page = <<>>
        /\ Len(Emitted) = Len(yielded)
        /\ counter.n = Len(yielded)
        /\ offset' > offset
        /\ offset' = requests]_vars

\* The second response has been received, after both records of the first
\* page were processed.
C17_Witness ==
    /\ stream = "assets"
    /\ pc = "loop"
    /\ requests = 2
    /\ Len(yielded) = 2
    /\ Len(Emitted) = 2
    /\ yielded[1].offset = 0
    /\ yielded[2].offset = 0
    /\ page # <<>>

\* ------------------------------------------------------------------- C18
\* The response to the request with offset o held the asset with this id.
InResponse(id, o) ==
    \E i \in 1..Len(WindowPage(assets_total, o, PageLimit)) :
        WindowPage(assets_total, o, PageLimit)[i].id = id

(* C18: every record of Assets.get_records carries in 'offset' the offset  *)
(* parameter of the request whose response contained it: the records of    *)
(* the page being yielded carry the offset of the latest request, and      *)
(* every record yielded so far carries the offset of a request that was    *)
(* issued and whose response held that record.                             *)
C18_PaginationProvenance ==
    stream = "assets" =>
        /\ \A i \in 1..Len(page) :
              /\ page[i].offset = offset
              /\ InResponse(page[i].id, offset)
        /\ \A i \in 1..Len(yielded) :
              /\ yielded[i].offset \in 0..offset
              /\ InResponse(yielded[i].id, yielded[i].offset)
        /\ \A i, j \in 1..Len(yielded) :
              i <= j => yielded[i].offset <= yielded[j].offset

\* Records of two responses have been yielded, each with its own offset.
C18_Witness ==
    /\ stream = "assets"
    /\ Len(yielded) >= 2
    /\ yielded[1].offset = 0
    /\ yielded[Len(yielded)].offset = 1
    /\ yielded[Len(yielded)].id = 1

\* ------------------------------------------------------------------- C19
\* The largest of start_time and the replication-key values pulled so far.
LargestSeen ==
    LET seen == {strptime_to_utc(start_time)} \cup Range(YieldedKeys)
    IN  CHOOSE m \in seen : \A k \in seen : k <= m

(* C19: whatever the order of the source's records, the running maximum of *)
(* an IncrementalStream.sync is the largest of start_time and the keys     *)
(* pulled so far, and the bookmark a finished sync has written is the      *)
(* largest of start_time and all keys of the sequence.                     *)
C19_BookmarkIsMaximum ==
    (stream = IncStream /\ pc \in {"loop", "done"}) =>
        /\ strptime_to_utc(max_record_value) = LargestSeen
        /\ pc = "done" => Watermark(state) = LargestSeen

\* A finished sync over a source out of order: the largest key was not the
\* last, a later record was skipped, and the bookmark is that largest key.
C19_Witness ==
    /\ stream = IncStream
    /\ pc = "done"
    /\ Len(yielded) >= 2
    /\ Len(yielded) > Len(Emitted)
    /\ YieldedKeys[Len(yielded)] < Watermark(state)
    /\ Watermark(state) > strptime_to_utc(start_time)

\* ------------------------------------------------------------------- C20
(* C20: in every state of an IncrementalStream.sync the records emitted so *)
(* far are non-decreasing in replication-key value, every emitted key is   *)
(* at or after start_time, max_record_value is the key of the last emitted *)
(* record (its instant, in isoformat), or start_time if none was emitted,  *)
(* and the counter is the number of records emitted.                       *)
C20_LoopInvariant ==
    stream = IncStream =>
        /\ \A i, j \in 1..Len(Emitted) :
              i <= j => EmittedKeys[i] <= EmittedKeys[j]
        /\ \A i \in 1..Len(Emitted) :
              EmittedKeys[i] >= strptime_to_utc(start_time)
        /\ max_record_value =
              IF Emitted = <<>> THEN start_time
              ELSE isoformat(EmittedKeys[Len(Emitted)])
        /\ counter.n = Len(Emitted)

\* A sync in its loop that has emitted two records with different keys and
\* skipped one.
C20_Witness ==
    /\ stream = IncStream
    /\ pc = "loop"
    /\ Len(Emitted) = 2
    /\ Len(yielded) = 3
    /\ EmittedKeys[1] < EmittedKeys[2]
    /\ counter.n = 2

====
